---------------------------- MODULE Spec2Model ----------------------------
(***************************************************************************)
(* A model of fetch_and_format_menu (src/script.py): the extraction of a   *)
(* cafeteria menu from one page into a two-slot lunch/dinner result.       *)
(*                                                                         *)
(* Conventions.                                                            *)
(*  - A Python str is a sequence of characters; a character is a one-      *)
(*    element TLA+ string.  The module is ASCII, so the four non-ASCII     *)
(*    characters the program mentions are written by their code point      *)
(*    ("U+00D6" is one character).                                         *)
(*  - A Python Optional value is a sequence of length 0 (None) or 1.       *)
(*  - A parsed page is a record of what the program queries from it: the   *)
(*    first table.menu-list and the first div.view-yemek-listesi.          *)
(***************************************************************************)
EXTENDS Integers, Sequences, FiniteSets, TLC

VARIABLES
    page,        \* the document the site serves for date_str
    response,    \* None, or the parsed response of requests.get
    pc,          \* "fetch", "detect", "loop", "done"
    rows,        \* the rows of the detected layout
    i,           \* how many of them the loop has gone through
    menu_data,
    meals_found,
    ret          \* the returned value, once pc = "done"

vars == <<page, response, pc, rows, i, menu_data, meals_found, ret>>

None == <<>>
Some(v) == <<v>>

---------------------------------------------------------------------------
(* Characters and the str methods the program calls.                       *)

EnDash == "U+2013"
cOuml == "U+00D6"
cgbreve == "U+011F"
cscedil == "U+015F"

Lowercase == <<"a","b","c","d","e","f","g","h","i","j","k","l","m",
               "n","o","p","q","r","s","t","u","v","w","x","y","z">>
Uppercase == <<"A","B","C","D","E","F","G","H","I","J","K","L","M",
               "N","O","P","Q","R","S","T","U","V","W","X","Y","Z">>

Whitespace == {" ", "\t", "\n"}

Range(s) == {s[k] : k \in DOMAIN s}

IndexIn(c, s) == CHOOSE k \in DOMAIN s : s[k] = c

\* str.isupper / islower of one character: a cased character
IsCased(c) == c \in Range(Lowercase) \cup Range(Uppercase)

ToUpper(c) == IF c \in Range(Lowercase) THEN Uppercase[IndexIn(c, Lowercase)] ELSE c

ToLower(c) == IF c \in Range(Uppercase) THEN Lowercase[IndexIn(c, Uppercase)] ELSE c

\* str.strip(): drop leading and trailing whitespace
strip(s) ==
    LET keep == {k \in DOMAIN s : s[k] \notin Whitespace}
    IN  IF keep = {} THEN <<>>
        ELSE LET lo == CHOOSE k \in keep : \A m \in keep : k <= m
                 hi == CHOOSE k \in keep : \A m \in keep : k >= m
             IN  SubSeq(s, lo, hi)

\* str.isspace(): non-empty and every character is whitespace
isspace(s) == Len(s) > 0 /\ \A k \in DOMAIN s : s[k] \in Whitespace

\* sub in s
Contains(sub, s) ==
    \E k \in 0..(Len(s) - Len(sub)) : SubSeq(s, k + 1, k + Len(sub)) = sub

\* s.split(sep) for a one-character separator: the pieces between the
\* separators, empty pieces included; always at least one piece
RECURSIVE split(_, _)
split(s, sep) ==
    IF \A k \in DOMAIN s : s[k] # sep THEN <<s>>
    ELSE LET p == CHOOSE k \in DOMAIN s : s[k] = sep /\ \A m \in 1..(k-1) : s[m] # sep
         IN  <<SubSeq(s, 1, p - 1)>> \o split(SubSeq(s, p + 1, Len(s)), sep)

\* sep.join(list)
RECURSIVE join(_, _)
join(sep, list) ==
    IF list = <<>> THEN <<>>
    ELSE IF Len(list) = 1 THEN list[1]
    ELSE list[1] \o sep \o join(sep, Tail(list))

\* str.title(): a cased character is upper-cased when the character before
\* it is not cased (or it is first), lower-cased otherwise
title(s) ==
    [k \in DOMAIN s |->
        IF k > 1 /\ IsCased(s[k-1]) THEN ToLower(s[k]) ELSE ToUpper(s[k])]

\* concatenation of a list of strings
RECURSIVE Concat(_)
Concat(list) == IF list = <<>> THEN <<>> ELSE list[1] \o Concat(Tail(list))

\* [f(x) for x in list]
StripAll(list) == [k \in DOMAIN list |-> strip(list[k])]

NonEmpty(s) == s # <<>>

---------------------------------------------------------------------------
(* Configuration (src/script.py lines 9-10) and literals.                 *)

LUNCH_TIME == <<"1","1",":","4","0"," ","t","o"," ","1","2",":","3","0"," ","G","M","T","+","3">>
DINNER_TIME == <<"1","7",":","4","0"," ","t","o"," ","1","8",":","3","0"," ","G","M","T","+","3">>

\* the discriminators of lines 103 and 106
Ogle == <<cOuml, cgbreve, "l", "e">>
Aksam == <<"A", "k", cscedil, "a", "m">>

\* the separator tokens of line 135
Separators == {<<",">>, <<"-">>, <<EnDash>>}

\* the argument of the call
date_str == <<"0","1","/","0","1","/","2","0","2","4">>

---------------------------------------------------------------------------
(* The parsed document, as far as the program queries it.                  *)
(*   child of a node : a text leaf, an <h3> with its text leaves, or an    *)
(*                     <article> with its first <h2> (None: no <h2>; the   *)
(*                     <h2> holds one text leaf, or none when it is empty) *)
(*   node            : the sequence of such children in document order     *)
(*   <tr>            : its td/th cells, each a node                        *)
(*   <h3 class=title>: its text leaves, its nearest div.views-row ancestor *)
(*                     (None when there is none) and its immediate parent  *)

Text(s) == [tag |-> "#text", texts |-> <<s>>, h2 |-> None]
H3(leaves) == [tag |-> "h3", texts |-> leaves, h2 |-> None]
Article(h2) == [tag |-> "article", texts |-> <<>>, h2 |-> h2]

Tr(cols) == [name |-> "tr", cols |-> cols, texts |-> <<>>, views_row |-> None, parent |-> <<>>]
Header(leaves, views_row, parent) ==
    [name |-> "h3", cols |-> <<>>, texts |-> leaves, views_row |-> views_row, parent |-> parent]

\* the text leaves under one child, in document order
Leaves(child) ==
    IF child.tag = "article"
    THEN IF child.h2 # None /\ child.h2[1] # <<>> THEN <<child.h2[1]>> ELSE <<>>
    ELSE child.texts

\* node.find_all(text=True, recursive=True)
RECURSIVE find_all_text(_)
find_all_text(node) ==
    IF node = <<>> THEN <<>> ELSE Leaves(node[1]) \o find_all_text(Tail(node))

\* node.find_all('article')
find_all_article(node) ==
    LET IsArticle(c) == c.tag = "article" IN SelectSeq(node, IsArticle)

\* node.text: the text leaves concatenated
text_of(node) == Concat(find_all_text(node))

\* get_text(strip=True) over a list of text leaves: each leaf stripped, the
\* empty ones dropped, the rest concatenated
get_text_strip(leaves) == Concat(SelectSeq(StripAll(leaves), NonEmpty))

---------------------------------------------------------------------------
(* The steps of the loop body, lines 79-169.                              *)

\* lines 84-86: a <tr> with fewer than two cells is skipped
too_few_cols(row) == row.name = "tr" /\ Len(row.cols) < 2

\* lines 87 and 91
meal_type_cell(row) ==
    IF row.name = "tr" THEN strip(text_of(row.cols[1])) ELSE get_text_strip(row.texts)

\* lines 88 and 95-98
menu_items_cell(row) ==
    IF row.name = "tr" THEN row.cols[2]
    ELSE IF row.views_row # None THEN row.views_row[1] ELSE row.parent

\* a variant of meal_key that tests the dinner discriminator first
meal_key_dinner_first(label) ==
    IF Contains(Aksam, label) THEN Some("dinner")
    ELSE IF Contains(Ogle, label) THEN Some("lunch")
    ELSE None

\* lines 103-110: the slot of a label, None for `continue`
meal_key(label) ==
    IF Contains(Ogle, label) THEN Some("lunch")
    ELSE IF Contains(Aksam, label) THEN Some("dinner")
    ELSE None

\* lines 105 and 108
time_slot(key) == IF key = "lunch" THEN LUNCH_TIME ELSE DINNER_TIME

\* lines 119-122: the stripped <h2> text of each article that has a non-empty one
RECURSIVE h2_texts(_)
h2_texts(articles) ==
    IF articles = <<>> THEN <<>>
    ELSE LET art == articles[1]
             t == IF art.h2 = None THEN <<>> ELSE get_text_strip(art.h2)
         IN  (IF t # <<>> THEN <<t>> ELSE <<>>) \o h2_texts(Tail(articles))

\* a variant of raw_text_nodes that always gathers the text leaves
raw_text_nodes_text_only(cell) == find_all_text(cell)

\* lines 114-125
raw_text_nodes(cell) ==
    LET articles == find_all_article(cell)
    IN  IF articles # <<>> THEN h2_texts(articles) ELSE find_all_text(cell)

\* lines 132-136
keep_item(item) ==
    /\ item # <<>>
    /\ strip(item) # <<>>
    /\ ~isspace(item)
    /\ strip(item) \notin Separators

clean(raw) == StripAll(SelectSeq(raw, keep_item))

\* a variant of comma_split that splits every element, whatever the length
RECURSIVE split_each(_)
split_each(menu_list) ==
    IF menu_list = <<>> THEN <<>>
    ELSE SelectSeq(StripAll(split(menu_list[1], ",")), NonEmpty) \o split_each(Tail(menu_list))

comma_split_every(menu_list) == split_each(menu_list)

\* lines 141-144
comma_split(menu_list) ==
    IF Len(menu_list) = 1
    THEN SelectSeq(StripAll(split(menu_list[1], ",")), NonEmpty)
    ELSE menu_list

\* lines 114-144 together: the menu_list line 146 tests
mine(cell) == comma_split(clean(raw_text_nodes(cell)))

\* lines 151-152
make_description(menu_list) == join(<<",", " ">>, menu_list)

\* a variant of make_title without .title()
make_title_raw(menu_list) ==
    IF Len(menu_list) >= 2
    THEN menu_list[1] \o <<" ", "w", "/", " ">> \o menu_list[2]
    ELSE menu_list[1] \o <<" ", "M", "e", "n", "u">>

\* lines 154-161
make_title(menu_list) ==
    IF Len(menu_list) >= 2
    THEN title(menu_list[1]) \o <<" ", "w", "/", " ">> \o title(menu_list[2])
    ELSE title(menu_list[1]) \o <<" ", "M", "e", "n", "u">>

\* lines 163-168: the dict literal
make_record(menu_list, key) ==
    [Title |-> make_title(menu_list),
     Description |-> make_description(menu_list),
     Date |-> date_str,
     Time |-> time_slot(key)]

\* variants of store: the assignment lost, and the first record kept
store_lost(md, key, rec) == md

store_first_wins(md, key, rec) ==
    IF md[key] = None THEN [md EXCEPT ![key] = Some(rec)] ELSE md

\* line 163: menu_data[meal_key] = {...}
store(md, key, rec) == [md EXCEPT ![key] = Some(rec)]

\* a variant of on_empty that clears the slot of the row
on_empty_clear(md, key) == [md EXCEPT ![key] = None]

\* lines 146-149: `continue` on an empty menu_list leaves menu_data alone
on_empty(md, key) == md

\* one iteration of the loop over `row`, from menu_data md and meals_found mf
body(row, md, mf) ==
    IF too_few_cols(row) THEN [menu_data |-> md, meals_found |-> mf]
    ELSE LET k == meal_key(meal_type_cell(row))
         IN  IF k = None THEN [menu_data |-> md, meals_found |-> mf]
             ELSE LET menu_list == mine(menu_items_cell(row))
                  IN  IF menu_list = <<>>
                      THEN [menu_data |-> on_empty(md, k[1]), meals_found |-> mf]
                      ELSE [menu_data |-> store(md, k[1], make_record(menu_list, k[1])),
                            meals_found |-> mf + 1]

\* a variant of select_rows that looks for the container first
select_rows_view_first(doc) ==
    IF doc.view_div # None THEN Some(doc.view_div[1])
    ELSE IF doc.menu_table = None THEN None
    ELSE Some(doc.menu_table[1])

\* lines 47-72: the rows to loop over, None for the `return None` of line 65
select_rows(doc) ==
    IF doc.menu_table # None THEN Some(doc.menu_table[1])
    ELSE IF doc.view_div = None THEN None
    ELSE Some(doc.view_div[1])

\* a variant of return_value without the meals_found test
return_value_always(md, mf) == Some(md)

\* line 172
return_value(md, mf) == IF mf > 0 THEN Some(md) ELSE None

---------------------------------------------------------------------------
(* The pages the model draws from: every page that holds at most MaxRows  *)
(* <tr> and <h3 class="title"> elements together, each drawn from the     *)
(* sets below.                                                             *)

MaxRows == 3

lblLunch == <<Text(<<" ", cOuml, cgbreve, "l", "e", " ", "Y", "e", "m", "e", "k", " ">>)>>
lblDinner == <<Text(<<"A", "k", cscedil, "a", "m">>)>>
lblBoth == <<Text(<<"A", "k", cscedil, "a", "m", "/", cOuml, cgbreve, "l", "e">>)>>
lblOther == <<Text(<<"O", "g", "l", "e">>)>>

cellTwo == <<Text(<<"l", "e", "n", "t", "i", "l", " ", "s", "o", "u", "p">>), Text(<<"\n", " ">>), Text(<<" ", "R", "i", "c", "e", " ">>)>>
cellComma == <<Text(<<"S", "o", "u", "p", ",", "R", "i", "c", "e", ",", "S", "a", "l", "a", "d">>)>>
cellDash == <<Text(<<"S", "o", "u", "p", ",", " ", "-">>)>>
cellNoise == <<Text(<<" ">>), Text(<<"-">>), Text(<<EnDash>>), Text(<<" ", ",", " ">>)>>
cellCommas == <<Text(<<",", " ", ",">>)>>
cellMixed == <<Text(<<"a", ",", "b">>), Text(<<"R", "i", "c", "e">>)>>
cellArt == <<Article(Some(<<"S", "o", "u", "p">>)), Text(<<"R", "i", "c", "e">>)>>

TableRows ==
    { Tr(<<>>), Tr(<<lblLunch>>),
      Tr(<<lblLunch, cellTwo>>), Tr(<<lblLunch, cellComma>>),
      Tr(<<lblLunch, cellNoise>>), Tr(<<lblLunch, cellArt>>),
      Tr(<<lblDinner, cellDash>>), Tr(<<lblDinner, cellCommas>>),
      Tr(<<lblDinner, cellMixed, cellTwo>>),
      Tr(<<lblBoth, cellMixed>>), Tr(<<lblOther, cellTwo>>) }

hLunch == <<<<" ", cOuml, cgbreve, "l", "e", " ", "Y", "e", "m", "e", "k", " ">>>>
hDinner == <<<<"A", "k", cscedil, "a", "m">>>>
hDinnerSplit == <<<<" ", "A", "k">>, <<cscedil, "a", "m", " ">>>>
hOther == <<<<"O", "g", "l", "e">>>>

cardArticles ==
    <<H3(hLunch), Article(Some(<<" ", "S", "o", "u", "p", " ">>)), Article(None), Article(Some(<<" ">>)),
      Article(Some(<<"R", "i", "c", "e">>))>>
cardNoH2 == <<H3(hLunch), Article(None), Text(<<"R", "i", "c", "e">>)>>
cardPlain == <<H3(hDinner), Text(<<"S", "o", "u", "p", ",", "R", "i", "c", "e", ",", "S", "a", "l", "a", "d">>)>>
cardOne == <<H3(hDinnerSplit), Article(Some(<<"p", "i", "l", "a", "v">>))>>
cardOther == <<H3(hOther), Article(Some(<<"S", "o", "u", "p">>))>>

Headers ==
    { Header(hLunch, Some(cardArticles), <<H3(hLunch)>>),
      Header(hLunch, Some(cardNoH2), <<H3(hLunch)>>),
      Header(hDinner, None, cardPlain),
      Header(hDinnerSplit, Some(cardOne), <<H3(hDinnerSplit)>>),
      Header(hOther, Some(cardOther), <<H3(hOther)>>) }

\* a page: its first table.menu-list (None, or its <tr> in document order) and
\* its first div.view-yemek-listesi (None, or its <h3 class="title">)
Page(has_table, trs, has_view, h3s) ==
    [menu_table |-> IF has_table THEN Some(trs) ELSE None,
     view_div |-> IF has_view THEN Some(h3s) ELSE None]

---------------------------------------------------------------------------
(* fetch_and_format_menu as a state machine.                               *)

Init ==
    /\ \E n \in 0..MaxRows : \E m \in 0..(MaxRows - n) :
         \E trs \in [1..n -> TableRows], h3s \in [1..m -> Headers] :
            \E has_table \in {TRUE} \cup {n # 0}, has_view \in {TRUE} \cup {m # 0} :
               page = Page(has_table, trs, has_view, h3s)
    /\ response = None
    /\ pc = "fetch"
    /\ rows = <<>>
    /\ i = 0
    /\ menu_data = [lunch |-> None, dinner |-> None]
    /\ meals_found = 0
    /\ ret = None

\* lines 20-40: requests.get and raise_for_status succeed
FetchOk ==
    /\ pc = "fetch"
    /\ response' = Some(page)
    /\ pc' = "detect"
    /\ UNCHANGED <<page, rows, i, menu_data, meals_found, ret>>

\* lines 41-44: a RequestException, return None
FetchFail ==
    /\ pc = "fetch"
    /\ ret' = None
    /\ pc' = "done"
    /\ UNCHANGED <<page, response, rows, i, menu_data, meals_found>>

\* lines 46-72: parse, initialise the result, pick the rows or return None
Detect ==
    /\ pc = "detect"
    /\ LET r == select_rows(response[1])
       IN  IF r = None
           THEN /\ ret' = None
                /\ pc' = "done"
                /\ rows' = rows
           ELSE /\ rows' = r[1]
                /\ pc' = "loop"
                /\ ret' = ret
    /\ menu_data' = [lunch |-> None, dinner |-> None]
    /\ meals_found' = 0
    /\ UNCHANGED <<page, response, i>>

\* lines 79-169: one iteration of `for row in rows`
ProcessRow ==
    /\ pc = "loop"
    /\ i < Len(rows)
    /\ LET out == body(rows[i + 1], menu_data, meals_found)
       IN  /\ menu_data' = out.menu_data
           /\ meals_found' = out.meals_found
    /\ i' = i + 1
    /\ UNCHANGED <<page, response, pc, rows, ret>>

\* line 172, once the loop is exhausted
Return ==
    /\ pc = "loop"
    /\ i = Len(rows)
    /\ ret' = return_value(menu_data, meals_found)
    /\ pc' = "done"
    /\ UNCHANGED <<page, response, rows, i, menu_data, meals_found>>

Next == FetchOk \/ FetchFail \/ Detect \/ ProcessRow \/ Return

Spec == Init /\ [][Next]_vars

---------------------------------------------------------------------------
(* Vocabulary of the properties.                                           *)

Slots == {"lunch", "dinner"}

\* the row gets past the cell count and the classification
Classified(row) == ~too_few_cols(row) /\ meal_key(meal_type_cell(row)) # None

SlotOf(row) == meal_key(meal_type_cell(row))[1]

ItemsOf(row) == mine(menu_items_cell(row))

\* the row produces a record
Yields(row) == Classified(row) /\ ItemsOf(row) # <<>>

RecordOf(row) == make_record(ItemsOf(row), SlotOf(row))

Max(S) == CHOOSE x \in S : \A y \in S : y <= x

\* the rows among the first n of `list` that produce a record for slot k
YieldingAt(list, k, n) == {j \in 1..n : Yields(list[j]) /\ SlotOf(list[j]) = k}

\* the rows of the layout the page has, table first
LayoutRows ==
    IF page.menu_table # None THEN page.menu_table[1]
    ELSE IF page.view_div # None THEN page.view_div[1]
    ELSE <<>>

NoLayout == page.menu_table = None /\ page.view_div = None

\* the loop has its rows: the page was fetched and a layout was found
InLoop == pc = "loop" \/ (pc = "done" /\ response # None /\ ~NoLayout)

Empty == [lunch |-> None, dinner |-> None]

---------------------------------------------------------------------------
\* C1: a returned Menu Result has a Meal Record in at least one of its two
\* slots, whatever rows the page has.
C1_ResultHasMeal ==
    pc = "done" /\ ret # None => ret[1].lunch # None \/ ret[1].dinner # None

\* C1 witness: a result returned from a page with a rejected or failing row
\* and two rows for the same slot.
C1_Witness ==
    /\ pc = "done" /\ ret # None
    /\ \E j \in 1..Len(rows) : ~Yields(rows[j])
    /\ \E k \in Slots : Cardinality(YieldingAt(rows, k, Len(rows))) >= 2
    /\ ret[1].dinner = None

\* C2: the last row that yields a record for a slot wins: each slot of the
\* final result is exactly the record of the last yielding row of that slot,
\* and is absent when no row yields for it.
C2_LastRowWins ==
    pc = "done" /\ ret # None =>
        \A k \in Slots :
            LET J == YieldingAt(LayoutRows, k, Len(LayoutRows))
            IN  ret[1][k] = IF J = {} THEN None ELSE Some(RecordOf(LayoutRows[Max(J)]))

\* C2 witness: two lunch rows with different records, the later one returned,
\* the dinner slot holding the record of the only dinner row.
C2_Witness ==
    /\ pc = "done" /\ ret # None /\ Len(rows) = 3
    /\ \E a, b, c \in 1..3 :
          /\ a < b
          /\ Yields(rows[a]) /\ SlotOf(rows[a]) = "lunch"
          /\ Yields(rows[b]) /\ SlotOf(rows[b]) = "lunch"
          /\ RecordOf(rows[a]).Title # RecordOf(rows[b]).Title
          /\ RecordOf(rows[a]).Description # RecordOf(rows[b]).Description
          /\ Yields(rows[c]) /\ SlotOf(rows[c]) = "dinner"
          /\ ret[1].lunch = Some(RecordOf(rows[b]))
          /\ ret[1].dinner = Some(RecordOf(rows[c]))

\* C3: the call returns absent exactly when retrieval failed, or the page has
\* neither layout, or no row of the detected layout produced a record; in the
\* first two cases no row was processed; a returned result is the whole
\* menu_data.
C3_AbsentIff ==
    pc = "done" =>
        /\ ret = None <=>
              \/ response = None
              \/ NoLayout
              \/ \A j \in 1..Len(LayoutRows) : ~Yields(LayoutRows[j])
        /\ response = None \/ NoLayout =>
              i = 0 /\ meals_found = 0 /\ menu_data = Empty /\ rows = <<>>
        /\ ret # None => ret = Some(menu_data) /\ i = Len(LayoutRows)

\* C3 witness: a fetched table whose rows were all processed and none of
\* which produced a record.
C3_Witness ==
    /\ pc = "done" /\ ret = None /\ response # None
    /\ page.menu_table # None /\ Len(rows) = 3 /\ i = 3
    /\ \E j \in 1..3 : Classified(rows[j])

\* C4: the record of a slot is a function of the final item list of the row it
\* came from: the description is the items joined with ", ", the title is
\* title-cased item 1 + " w/ " + title-cased item 2 for two or more items and
\* title-cased item 1 + " Menu" for one item.
C4_RecordFromItems ==
    InLoop =>
        \A k \in Slots :
            LET J == YieldingAt(rows, k, i)
            IN  J # {} =>
                  LET L == ItemsOf(rows[Max(J)])
                      sep == <<",", " ">>
                      w == <<" ", "w", "/", " ">>
                      menu == <<" ", "M", "e", "n", "u">>
                  IN  /\ menu_data[k] # None
                      /\ menu_data[k][1].Description = join(sep, L)
                      /\ Len(L) >= 2 => menu_data[k][1].Title = title(L[1]) \o w \o title(L[2])
                      /\ Len(L) = 1 => menu_data[k][1].Title = title(L[1]) \o menu

\* C4 witness: a result with one slot from a one-item list and the other from
\* a list of several items whose first item title-casing changes.
C4_Witness ==
    /\ pc = "done" /\ ret # None
    /\ \E a, b \in 1..Len(rows) :
          /\ Yields(rows[a]) /\ Len(ItemsOf(rows[a])) = 1
          /\ Yields(rows[b]) /\ Len(ItemsOf(rows[b])) >= 2
          /\ SlotOf(rows[a]) # SlotOf(rows[b])
          /\ ret[1][SlotOf(rows[a])] = Some(RecordOf(rows[a]))
          /\ ret[1][SlotOf(rows[b])] = Some(RecordOf(rows[b]))
          /\ title(ItemsOf(rows[b])[1]) # ItemsOf(rows[b])[1]

\* C5: every item behind a stored record is non-empty, has no leading or
\* trailing whitespace and is not one of the separator tokens, also when it
\* is a piece of the comma re-split.
C5_ItemsAreMenuItems ==
    InLoop =>
        \A k \in Slots :
            LET J == YieldingAt(rows, k, i)
            IN  J # {} /\ menu_data[k] = Some(RecordOf(rows[Max(J)])) =>
                  \A n \in DOMAIN ItemsOf(rows[Max(J)]) :
                      LET item == ItemsOf(rows[Max(J)])[n]
                      IN  item # <<>> /\ strip(item) = item /\ item \notin Separators

\* the reasons a row is skipped for
Skipped(row) ==
    \/ too_few_cols(row)
    \/ meal_key(meal_type_cell(row)) = None
    \/ ItemsOf(row) = <<>>

\* C6: a skipped row leaves both slots and the count as they were, and the
\* loop goes on to the next row.
C6_SkipChangesNothing ==
    [][pc = "loop" /\ i < Len(rows) /\ Skipped(rows[i + 1]) =>
          /\ menu_data' = menu_data
          /\ meals_found' = meals_found
          /\ pc' = "loop" /\ i' = i + 1 /\ rows' = rows]_vars

\* C6 witness: a slot filled by an earlier row, then a row of the same slot
\* whose mining fails, then a later row that is still processed; the record of
\* the first row is returned.
C6_Witness ==
    /\ pc = "done" /\ ret # None /\ Len(rows) = 3
    /\ Yields(rows[1])
    /\ Classified(rows[2]) /\ SlotOf(rows[2]) = SlotOf(rows[1]) /\ ItemsOf(rows[2]) = <<>>
    /\ Yields(rows[3]) /\ SlotOf(rows[3]) # SlotOf(rows[1])
    /\ ret[1][SlotOf(rows[1])] = Some(RecordOf(rows[1]))
    /\ ret[1][SlotOf(rows[3])] = Some(RecordOf(rows[3]))
    /\ meals_found = 2

\* the items the two strategies give for a content node
ItemsFromLeaves(cell) == comma_split(clean(find_all_text(cell)))

ItemsFromArticles(cell) == comma_split(clean(h2_texts(find_all_article(cell))))

HasArticles(cell) == \E n \in DOMAIN cell : cell[n].tag = "article"

\* C7 as stated: for a table row the candidates are the text leaves of the
\* second cell, so a classified table row with items among them stores the
\* record built from them.
C7_TableUsesLeaves ==
    InLoop /\ i >= 1 /\ rows[i].name = "tr" /\ Classified(rows[i]) =>
        LET L == ItemsFromLeaves(rows[i].cols[2])
            k == SlotOf(rows[i])
        IN  L # <<>> => menu_data[k] = Some(make_record(L, k))

\* C7 amended: the strategy is selected by the shape of the content node in
\* both layouts: with article elements under it the candidates are the
\* non-empty h2 texts of the articles, without any they are its text leaves.
C7_ByShape ==
    InLoop /\ i >= 1 /\ Classified(rows[i]) =>
        LET cell == menu_items_cell(rows[i])
            k == SlotOf(rows[i])
            L == IF HasArticles(cell) THEN ItemsFromArticles(cell) ELSE ItemsFromLeaves(cell)
        IN  /\ L # <<>> => menu_data[k] = Some(make_record(L, k))
            /\ L = <<>> => ~Yields(rows[i])

\* C7 witness: a table row whose second cell holds an article and a text leaf
\* outside it; the stored record is built from the h2 text alone.
C7_Witness ==
    /\ InLoop /\ i >= 1 /\ rows[i].name = "tr" /\ Classified(rows[i])
    /\ HasArticles(rows[i].cols[2])
    /\ ItemsFromArticles(rows[i].cols[2]) # ItemsFromLeaves(rows[i].cols[2])
    /\ menu_data[SlotOf(rows[i])] =
          Some(make_record(ItemsFromArticles(rows[i].cols[2]), SlotOf(rows[i])))

\* the classification C8 states
LabelSlot(label) ==
    IF Contains(Ogle, label) THEN Some("lunch")
    ELSE IF Contains(Aksam, label) /\ ~Contains(Ogle, label) THEN Some("dinner")
    ELSE None

SlotTime(k) == IF k = "lunch" THEN LUNCH_TIME ELSE DINNER_TIME

HasCells(row) == row.name = "tr" => Len(row.cols) >= 2

\* C8: a label containing the lunch discriminator goes to lunch whatever else
\* it contains, a label goes to dinner exactly when it contains the dinner
\* discriminator and not the lunch one, every other label is rejected; a
\* stored record came from a row classified to its slot and carries the
\* slot's time label.
C8_Classification ==
    InLoop =>
        /\ i >= 1 /\ HasCells(rows[i]) /\ ItemsOf(rows[i]) # <<>> =>
              LET k == LabelSlot(meal_type_cell(rows[i]))
              IN  k # None =>
                    menu_data[k[1]] = Some(make_record(ItemsOf(rows[i]), k[1]))
        /\ \A k \in Slots :
              menu_data[k] # None =>
                  /\ menu_data[k][1].Time = SlotTime(k)
                  /\ \E j \in 1..i :
                        /\ HasCells(rows[j])
                        /\ LabelSlot(meal_type_cell(rows[j])) = Some(k)
                        /\ ItemsOf(rows[j]) # <<>>
                        /\ menu_data[k] = Some(make_record(ItemsOf(rows[j]), k))
        /\ meals_found =
              Cardinality({j \in 1..i : /\ HasCells(rows[j])
                                        /\ LabelSlot(meal_type_cell(rows[j])) # None
                                        /\ ItemsOf(rows[j]) # <<>>})

\* C8 witness: a label holding both discriminators was stored as lunch with
\* the lunch time, after a rejected row.
C8_Witness ==
    /\ InLoop /\ i >= 2
    /\ HasCells(rows[1]) /\ LabelSlot(meal_type_cell(rows[1])) = None
    /\ HasCells(rows[i])
    /\ Contains(Ogle, meal_type_cell(rows[i])) /\ Contains(Aksam, meal_type_cell(rows[i]))
    /\ menu_data.lunch = Some(make_record(ItemsOf(rows[i]), "lunch"))
    /\ menu_data.lunch[1].Time = LUNCH_TIME
    /\ menu_data.dinner = None /\ meals_found = 1

\* the normalized list of a row, before the comma re-split
Normalized(row) == clean(raw_text_nodes(menu_items_cell(row)))

\* the pieces of one element: split on comma, trimmed, the empty ones dropped
Pieces(item) == SelectSeq([n \in DOMAIN split(item, ",") |-> strip(split(item, ",")[n])], NonEmpty)

\* the item list C9 states
Resplit(list) == IF Len(list) = 1 THEN Pieces(list[1]) ELSE list

\* C9: a normalized list of exactly one element is replaced by its pieces, a
\* list of two or more elements is left as it is, and a classified row is
\* skipped exactly when the list after this step is empty.
C9_CommaResplit ==
    [][pc = "loop" /\ i < Len(rows) /\ Classified(rows[i + 1]) =>
          LET L == Resplit(Normalized(rows[i + 1]))
              k == SlotOf(rows[i + 1])
          IN  IF L = <<>>
              THEN menu_data' = menu_data /\ meals_found' = meals_found
              ELSE /\ menu_data' = [menu_data EXCEPT ![k] = Some(make_record(L, k))]
                   /\ meals_found' = meals_found + 1]_vars

\* C9 witness: the single node "Soup,Rice,Salad" was stored as three items, a
\* two-element list with a comma inside an element was stored unsplit, and a
\* single element of commas alone was skipped.
C9_Witness ==
    /\ pc = "done" /\ ret # None /\ Len(rows) = 3
    /\ \A j \in 1..3 : Classified(rows[j])
    /\ Normalized(rows[1]) = <<<<"S", "o", "u", "p", ",", "R", "i", "c", "e", ",", "S", "a", "l", "a", "d">>>>
    /\ ItemsOf(rows[1]) = <<<<"S", "o", "u", "p">>, <<"R", "i", "c", "e">>, <<"S", "a", "l", "a", "d">>>>
    /\ ret[1].lunch = Some(make_record(<<<<"S", "o", "u", "p">>, <<"R", "i", "c", "e">>, <<"S", "a", "l", "a", "d">>>>, "lunch"))
    /\ Len(Normalized(rows[2])) = 1 /\ ItemsOf(rows[2]) = <<>>
    /\ Normalized(rows[3]) = <<<<"a", ",", "b">>, <<"R", "i", "c", "e">>>>
    /\ ret[1].dinner = Some(make_record(<<<<"a", ",", "b">>, <<"R", "i", "c", "e">>>>, "dinner"))
    /\ meals_found = 2

\* C10: with a menu-list table on the page only its rows are processed, and
\* the result is absent when none of them yields a record, whatever the
\* container holds; the container's headings are processed only without a
\* table.
C10_TableFirst ==
    response # None /\ pc \in {"loop", "done"} =>
        /\ page.menu_table # None =>
              /\ rows = page.menu_table[1]
              /\ pc = "done" /\ (\A j \in 1..Len(rows) : ~Yields(rows[j])) => ret = None
        /\ page.menu_table = None /\ page.view_div # None => rows = page.view_div[1]
        /\ (\E j \in 1..Len(rows) : rows[j].name = "h3") => page.menu_table = None

\* C10 witness: a table without any yielding row beside a container with a
\* classifiable meal; the result is absent.
C10_Witness ==
    /\ pc = "done" /\ response # None /\ ret = None
    /\ page.menu_table # None /\ Len(page.menu_table[1]) >= 1
    /\ \E j \in 1..Len(rows) : Classified(rows[j])
    /\ page.view_div # None
    /\ \E j \in 1..Len(page.view_div[1]) : Yields(page.view_div[1][j])

=============================================================================
